---- MODULE Spec2Model ----
(***************************************************************************)
(* Model of the longest-match segmenter of chinese-reader                  *)
(* (generate_article.py: is_chinese_char, process_text and the module-level*)
(* accumulator unknown_chars).                                             *)
(*                                                                         *)
(* A Python str is a sequence of code points; text[i] (0-based) is         *)
(* text[i + 1] here.  A vocabulary dict is a function whose DOMAIN is the  *)
(* set of its keys; an entry is the record [pinyin, english].  A span is   *)
(* the 4-tuple (word, is_known, pinyin, english) the code appends.         *)
(* Code points used: 72 "H", 105 "i", 20320 "你", 22909 "好".               *)
(***************************************************************************)
EXTENDS Integers, Sequences, FiniteSets, TLC

\* generate_article.py
VARIABLES known_vocab, extra_vocab, unknown_chars, pc, text, i, result,
          starts, acc0, reported, prev, stale, html_content

\* scrape_stories.py: fetch
VARIABLES fetch_pc, retries, attempt, trace, body, returned

\* scrape_stories.py: SimpleHTMLTextExtractor
VARIABLES text_parts, skip, open_skip, fed

\* scrape_stories.py: extract_chinese_lines
VARIABLES lines_pc, page_text, page_lines, line_no, seen, lines, picked

fetchVars == <<fetch_pc, retries, attempt, trace, body, returned>>

extractorVars == <<text_parts, skip, open_skip, fed>>

linesVars == <<lines_pc, page_text, page_lines, line_no, seen, lines, picked>>

scrapeVars == <<fetchVars, extractorVars, linesVars>>

vars == <<known_vocab, extra_vocab, unknown_chars, pc, text, i, result,
          starts, acc0, reported, prev, stale, html_content, scrapeVars>>

\* self.skip_tags
skip_tags == {"script", "style", "noscript"}

(* ------------------------------ bounds --------------------------------- *)
\* longest text handed to process_text by the single-threaded program
MaxLen == 4
\* longest text segmented with the vocabulary {"你好"}
MaxHiLen == 4
\* longest story that is rendered
MaxRenderLen == 3
\* largest retries argument of fetch
MaxRetries == 2
\* longest response body, in bytes
MaxBodyLen == 2
\* most parser events fed to one SimpleHTMLTextExtractor
MaxEvents == 4
\* most lines of a page handed to extract_chinese_lines
MaxPageLines == 3
\* longest text of a call that is repeated
MaxRepLen == 3
\* longest text handed to each of two interleaved activations
MaxConcLen == 2

(* ----------------------------- inputs ---------------------------------- *)
Alphabet == {72, 20320, 22909}

HiAlphabet == {72, 105, 20320, 22909}

\* a story with line breaks: "\n", "H", "你", "好"
RenderAlphabet == {10, 72, 20320, 22909}

Texts(A, n) == UNION {[1..k -> A] : k \in 0..n}

\* rows vocab_main.csv may hold: key |-> entry
KnownTable ==
    (<<20320>> :> [pinyin |-> "nǐ", english |-> "you"])
 @@ (<<22909>> :> [pinyin |-> "hǎo", english |-> "good"])
 @@ (<<20320, 22909>> :> [pinyin |-> "nǐ hǎo", english |-> "hello"])

\* rows extra_vocab.csv may hold: key |-> entry
ExtraTable ==
    (<<20320>> :> [pinyin |-> "nǐ", english |-> "thou"])
 @@ (<<20320, 22909>> :> [pinyin |-> "nǐhǎo", english |-> "hi"])
 @@ (<<22909, 20320, 72>> :> [pinyin |-> "hǎo nǐ H", english |-> "vitamin H"])
 @@ (<<20320, 22909, 20320, 22909>> :> [pinyin |-> "nǐ hǎo nǐ hǎo", english |-> "hello hello"])

Restrict(table, keys) == [k \in keys |-> table[k]]

Runs == {1, 2}

(* ------------------------- pure functions ------------------------------ *)
CJK_FIRST == 19968
CJK_LAST == 40959

is_chinese_char(char) == CJK_FIRST <= char /\ char <= CJK_LAST

\* Python None; like the empty str it is falsy, and no chunk is empty
None == <<>>

Truthy(s) == s /= None /\ Len(s) > 0

\* text[a:b] for 0 <= a <= b: a slice that runs past the end is cut there
Slice(t, a, b) == SubSeq(t, a + 1, IF b > Len(t) THEN Len(t) ELSE b)

Lengths == <<4, 3, 2, 1>>

NoBest == [best_match |-> None, best_length |-> 0, best_is_known |-> FALSE]

\* variant: extra is asked before known at each length
TryLength_extraFirst(t, pos, known, extra, length, best) ==
    IF pos + length <= Len(t)
    THEN LET chunk == Slice(t, pos, pos + length)
         IN  IF chunk \in DOMAIN extra /\ length > best.best_length
             THEN [best_match |-> chunk, best_length |-> length,
                   best_is_known |-> FALSE]
             ELSE IF chunk \in DOMAIN known /\ length > best.best_length
             THEN [best_match |-> chunk, best_length |-> length,
                   best_is_known |-> TRUE]
             ELSE best
    ELSE best

\* variant: a match in extra is flagged as coming from known
TryLength_flagKnown(t, pos, known, extra, length, best) ==
    IF pos + length <= Len(t)
    THEN LET chunk == Slice(t, pos, pos + length)
         IN  IF (chunk \in DOMAIN known \/ chunk \in DOMAIN extra)
                /\ length > best.best_length
             THEN [best_match |-> chunk, best_length |-> length,
                   best_is_known |-> TRUE]
             ELSE best
    ELSE best

\* variant: the probe is not held inside the text
TryLength_noBound(t, pos, known, extra, length, best) ==
    LET chunk == Slice(t, pos, pos + length)
    IN  IF chunk \in DOMAIN known /\ length > best.best_length
        THEN [best_match |-> chunk, best_length |-> length,
              best_is_known |-> TRUE]
        ELSE IF chunk \in DOMAIN extra /\ length > best.best_length
        THEN [best_match |-> chunk, best_length |-> length,
              best_is_known |-> FALSE]
        ELSE best

\* one pass of the body of "for length in [4, 3, 2, 1]"
TryLength(t, pos, known, extra, length, best) ==
    IF pos + length <= Len(t)
    THEN LET chunk == Slice(t, pos, pos + length)
         IN  IF chunk \in DOMAIN known /\ length > best.best_length
             THEN [best_match |-> chunk, best_length |-> length,
                   best_is_known |-> TRUE]
             ELSE IF chunk \in DOMAIN extra /\ length > best.best_length
             THEN [best_match |-> chunk, best_length |-> length,
                   best_is_known |-> FALSE]
             ELSE best
    ELSE best

RECURSIVE ScanLengths(_, _, _, _, _, _)
ScanLengths(t, pos, known, extra, k, best) ==
    IF k > Len(Lengths)
    THEN best
    ELSE ScanLengths(t, pos, known, extra, k + 1,
                     TryLength(t, pos, known, extra, Lengths[k], best))

\* variant: table by table, every length of known before any of extra
FindBest_byTable(t, pos, known, extra) ==
    LET k == ScanLengths(t, pos, known, <<>>, 1, NoBest)
    IN  IF Truthy(k.best_match)
        THEN k
        ELSE ScanLengths(t, pos, <<>>, extra, 1, NoBest)

FindBest(t, pos, known, extra) == ScanLengths(t, pos, known, extra, 1, NoBest)

\* variant: while i <= len(text)
LoopCond_le(pos, t) == pos <= Len(t)

\* while i < len(text)
LoopCond(pos, t) == pos < Len(t)

\* text[pos] is defined; otherwise the subscript raises IndexError
InRange(t, pos) == 0 <= pos /\ pos < Len(t)

\* variant: a passthrough character is flagged unknown
PassSpan_unknown(char) == <<<<char>>, FALSE, "", "">>

PassSpan(char) == <<<<char>>, TRUE, "", "">>

\* variant: the unmapped character's span carries no '?' marks
UnknownSpan_blank(char) == <<(<<char>>), FALSE, "", "">>

UnknownSpan(char) == <<<<char>>, FALSE, "?", "?">>

\* variant: the character is not recorded
AddUnknown_skip(acc, char) == acc

AddUnknown(acc, char) == acc \cup {char}

\* vocab[key]: <<entry>>, or <<>> where Python raises KeyError
Subscript(vocab, key) ==
    IF key \in DOMAIN vocab THEN <<vocab[key]>> ELSE <<>>

\* info = known_vocab[best_match] or extra_vocab[best_match]
SelectInfo(best, known, extra) ==
    IF best.best_is_known
    THEN Subscript(known, best.best_match)
    ELSE Subscript(extra, best.best_match)

MatchedSpan(best, info) ==
    IF best.best_is_known
    THEN <<best.best_match, TRUE, info.pinyin, info.english>>
    ELSE <<best.best_match, FALSE, info.pinyin, info.english>>

\* variant: i += 1 after a match
NextIndex_one(pos, best) == pos + 1

\* variant: the index is left where it was after a match
NextIndex_stay(pos, best) == pos

\* i += best_length
NextIndex(pos, best) == pos + best.best_length

(* ------------------------------ state ---------------------------------- *)
(* ---------------- generate_article_html: the story body ----------------- *)
\* A fragment appended to html_content is kept as the pieces the f-string
\* joins: the markup before the word, the word, the markup after it.
KnownOpen == "<span class=\"known\" data-pinyin=\""

UnknownOpen == "<span class=\"unknown\" data-pinyin=\""

Annotated(open, word, pinyin, english) ==
    [pre |-> <<open, pinyin, "\" data-english=\"", english, "\">">>,
     word |-> word,
     post |-> <<"</span>">>]

Verbatim(word) == [pre |-> <<>>, word |-> word, post |-> <<>>]

LineBreak == [pre |-> <<"<br>">>, word |-> <<>>, post |-> <<>>]

\* variant: the class is chosen by whether a pronunciation was found
Fragment_byPinyin(span) ==
    LET word == span[1]
    IN  IF (IF Truthy(word) THEN ~is_chinese_char(word[1]) ELSE TRUE)
        THEN IF word = <<10>> THEN LineBreak ELSE Verbatim(word)
        ELSE IF span[3] /= "?"
        THEN Annotated(KnownOpen, word, span[3], span[4])
        ELSE Annotated(UnknownOpen, word, span[3], span[4])

\* the body of "for word, is_known, pinyin, english in processed_text"
Fragment(span) ==
    LET word == span[1]
    IN  IF (IF Truthy(word) THEN ~is_chinese_char(word[1]) ELSE TRUE)
        THEN IF word = <<10>> THEN LineBreak ELSE Verbatim(word)
        ELSE IF span[2]
        THEN Annotated(KnownOpen, word, span[3], span[4])
        ELSE Annotated(UnknownOpen, word, span[3], span[4])

(* ------------------------ scrape_stories.py: fetch --------------------- *)
\* response bodies: bytes "A", and the two bytes 0xC3 0xA9 of "é"
Bytes == {65, 195, 169}

Bodies == UNION {[1..n -> Bytes] : n \in 0..MaxBodyLen}

\* what urlopen or resp.read() may raise
Exceptions == {"URLError", "timeout"}

\* the values fetch is called with for retries
RetryArgs == -1..MaxRetries

REPLACEMENT == 65533

\* bytes.decode('utf-8', errors='replace') on bytes below 0xE0: an ASCII
\* byte is itself, a lead byte 0xC2..0xDF with its continuation byte is one
\* two-byte character, any other byte becomes U+FFFD
RECURSIVE Decode(_)
Decode(b) ==
    IF b = <<>> THEN <<>>
    ELSE IF b[1] < 128 THEN <<b[1]>> \o Decode(Tail(b))
    ELSE IF /\ b[1] \in 194..223
            /\ Len(b) >= 2
            /\ b[2] \in 128..191
    THEN <<(b[1] - 192) * 64 + (b[2] - 128)>> \o Decode(Tail(Tail(b)))
    ELSE <<REPLACEMENT>> \o Decode(Tail(b))

\* variant: the wait is taken after the last attempt as well
MoreAttempts_le(a, r) == a <= r

\* "if attempt < retries"
MoreAttempts(a, r) == a < r

\* "for attempt in range(retries + 1)": attempt is still in the range
InRetryRange(a, r) == a < r + 1

(* ------------- scrape_stories.py: SimpleHTMLTextExtractor -------------- *)
\* the tags that append '\n' when they start, and when they end
break_on_start == {"br", "p", "div", "h1", "h2", "h3", "h4", "li"}

break_on_end == {"p", "div", "h1", "h2", "h3", "h4", "li"}

\* tags and character data the parser reports
Tags == skip_tags \cup {"p", "span"}

Data == {"text"}

(* --------------- scrape_stories.py: extract_chinese_lines -------------- *)
\* is_chinese(char)
is_chinese(char) == 19968 <= char /\ char <= 40959

\* the ASCII characters str.strip() removes and \s matches:
\* tab, newline, vertical tab, form feed, carriage return, space
Whitespace == {9, 10, 11, 12, 13, 32}

NEWLINE == 10

\* the six characters of "{Play}"
PlayMarker == <<123, 80, 108, 97, 121, 125>>

\* str.split('\n')
RECURSIVE Split(_)
Split(t) ==
    IF \A k \in 1..Len(t) : t[k] /= NEWLINE THEN <<t>>
    ELSE LET k == CHOOSE j \in 1..Len(t) :
                      /\ t[j] = NEWLINE
                      /\ \A m \in 1..(j - 1) : t[m] /= NEWLINE
         IN  <<SubSeq(t, 1, k - 1)>> \o Split(SubSeq(t, k + 1, Len(t)))

\* '\n'.join(parts)
RECURSIVE Join(_)
Join(parts) ==
    IF parts = <<>> THEN <<>>
    ELSE IF Len(parts) = 1 THEN parts[1]
    ELSE parts[1] \o <<NEWLINE>> \o Join(Tail(parts))

\* str.strip()
RECURSIVE Strip(_)
Strip(line) ==
    IF line = <<>> THEN line
    ELSE IF line[1] \in Whitespace THEN Strip(Tail(line))
    ELSE IF line[Len(line)] \in Whitespace
    THEN Strip(SubSeq(line, 1, Len(line) - 1))
    ELSE line

\* re.sub(r'\{Play\}', '', line): one pass, left to right
RECURSIVE RemovePlay(_)
RemovePlay(line) ==
    IF Len(line) < Len(PlayMarker) THEN line
    ELSE IF SubSeq(line, 1, Len(PlayMarker)) = PlayMarker
    THEN RemovePlay(SubSeq(line, Len(PlayMarker) + 1, Len(line)))
    ELSE <<line[1]>> \o RemovePlay(Tail(line))

\* the two assignments to line at the head of the loop body
Cleaned(line) == Strip(RemovePlay(Strip(line)))

\* sum(1 for c in line if is_chinese(c))
chinese_count(line) == Cardinality({k \in 1..Len(line) : is_chinese(line[k])})

NotSpace(c) == c \notin Whitespace

\* variant: duplicates are recognised by the line as it stands
normalized_asIs(line) == line

\* re.sub(r'\s+', '', line)
normalized(line) == SelectSeq(line, NotSpace)

\* lines a scraped page is made of: "你好你", " 你 好你 ", "{Play}你好你",
\* "你好", "你{Play}好 你", "好好好 {Play}", "好好好", ""
PageLinePool ==
    { <<20320, 22909, 20320>>,
      <<32, 20320, 32, 22909, 20320, 32>>,
      PlayMarker \o <<20320, 22909, 20320>>,
      <<20320, 22909>>,
      <<20320>> \o PlayMarker \o <<22909, 32, 20320>>,
      <<22909, 22909, 22909, 32>> \o PlayMarker,
      <<22909, 22909, 22909>>,
      <<>> }

Pages == {Join(ls) : ls \in UNION {[1..n -> PageLinePool] : n \in 0..MaxPageLines}}

\* fetch not yet called
FetchIdle ==
    /\ fetch_pc = "idle"
    /\ retries = 0
    /\ attempt = 0
    /\ trace = <<>>
    /\ body = <<>>
    /\ returned = <<"nothing yet">>

\* SimpleHTMLTextExtractor.__init__: no parts, not skipping; open_skip
\* counts the script/style/noscript elements opened and not yet closed, fed
\* the events handled so far
ExtractorNew ==
    /\ text_parts = <<>>
    /\ skip = FALSE
    /\ open_skip = [tag \in skip_tags |-> 0]
    /\ fed = 0

\* extract_chinese_lines not yet called
LinesIdle ==
    /\ lines_pc = "idle"
    /\ page_text = <<>>
    /\ page_lines = <<>>
    /\ line_no = 0
    /\ seen = {}
    /\ lines = <<>>
    /\ picked = <<>>

ScrapeIdle == FetchIdle /\ ExtractorNew /\ LinesIdle

\* pc: where each activation stands; starts: the index each emitted span
\* was started at; acc0, reported: unknown_chars as the activation found it
\* and as its caller read it on return; prev: outcome of the call before a
\* repeated one; stale: unknown_chars as earlier runs had left it when the
\* activation was started
Fresh ==
    /\ unknown_chars = {}
    /\ pc = [r \in Runs |-> "idle"]
    /\ text = [r \in Runs |-> <<>>]
    /\ i = [r \in Runs |-> 0]
    /\ result = [r \in Runs |-> <<>>]
    /\ starts = [r \in Runs |-> <<>>]
    /\ acc0 = [r \in Runs |-> {}]
    /\ reported = [r \in Runs |-> {}]
    /\ prev = [r \in Runs |-> <<>>]
    /\ stale = [r \in Runs |-> {}]
    /\ html_content = [r \in Runs |-> <<>>]
    /\ ScrapeIdle

\* any vocabulary the two CSV files may hold
Init ==
    /\ \E K \in SUBSET DOMAIN KnownTable : known_vocab = Restrict(KnownTable, K)
    /\ \E E \in SUBSET DOMAIN ExtraTable : extra_vocab = Restrict(ExtraTable, E)
    /\ Fresh

\* any rows in vocab_main.csv; extra_vocab.csv missing or complete
InitFiles ==
    /\ \E K \in SUBSET DOMAIN KnownTable : known_vocab = Restrict(KnownTable, K)
    /\ extra_vocab \in {Restrict(ExtraTable, {}), ExtraTable}
    /\ Fresh

\* scrape_stories.py loads no vocabulary
InitScrape ==
    /\ known_vocab = Restrict(KnownTable, {})
    /\ extra_vocab = Restrict(ExtraTable, {})
    /\ Fresh

\* the vocabulary {"你好": ("nǐ hǎo", "hello")} with no extra entries
InitHi ==
    /\ known_vocab = Restrict(KnownTable, {<<20320, 22909>>})
    /\ extra_vocab = Restrict(ExtraTable, {})
    /\ Fresh

(* ----------------------------- actions --------------------------------- *)
\* entry of process_text(t, known_vocab, extra_vocab): result = [], i = 0
Enter(r, t) ==
    /\ text' = [text EXCEPT ![r] = t]
    /\ i' = [i EXCEPT ![r] = 0]
    /\ result' = [result EXCEPT ![r] = <<>>]
    /\ starts' = [starts EXCEPT ![r] = <<>>]
    /\ pc' = [pc EXCEPT ![r] = "loop"]
    /\ acc0' = [acc0 EXCEPT ![r] = unknown_chars']
    /\ stale' = [stale EXCEPT ![r] = unknown_chars]
    /\ UNCHANGED <<known_vocab, extra_vocab, reported>>
    /\ UNCHANGED <<html_content, scrapeVars>>

\* variant: main() without its reset
MainRun_noReset(r, t) ==
    /\ pc[r] = "idle"
    /\ UNCHANGED <<unknown_chars, prev>>
    /\ Enter(r, t)

\* main(): empty the accumulator, then process_text(story['content'], ...)
MainRun(r, t) ==
    /\ pc[r] = "idle"
    /\ unknown_chars' = {}
    /\ UNCHANGED prev
    /\ Enter(r, t)

\* a direct call with a new text
Call(r, t) ==
    /\ pc[r] = "idle"
    /\ UNCHANGED <<unknown_chars, prev>>
    /\ Enter(r, t)

\* the same call again; the outcome of the call before it is remembered
Recall(r) ==
    /\ pc[r] = "done"
    /\ prev' = [prev EXCEPT ![r] =
                  <<[spans |-> result[r], before |-> acc0[r],
                     after |-> reported[r]]>>]
    /\ UNCHANGED unknown_chars
    /\ Enter(r, text[r])

\* loop iteration, text[i] not Chinese (char = text[i] is read first)
Passthrough(r) ==
    /\ pc[r] = "loop"
    /\ LoopCond(i[r], text[r])
    /\ IF ~InRange(text[r], i[r])
       THEN /\ pc' = [pc EXCEPT ![r] = "IndexError"]
            /\ UNCHANGED <<result, starts, i>>
       ELSE LET char == text[r][i[r] + 1]
            IN  /\ ~is_chinese_char(char)
                /\ result' = [result EXCEPT ![r] = Append(@, PassSpan(char))]
                /\ starts' = [starts EXCEPT ![r] = Append(@, i[r])]
                /\ i' = [i EXCEPT ![r] = @ + 1]
                /\ UNCHANGED pc
    /\ UNCHANGED <<known_vocab, extra_vocab, unknown_chars, text, acc0,
                   reported, prev, stale>>
    /\ UNCHANGED <<html_content, scrapeVars>>

\* loop iteration, text[i] Chinese and best_match truthy
Matched(r) ==
    /\ pc[r] = "loop"
    /\ LoopCond(i[r], text[r])
    /\ InRange(text[r], i[r])
    /\ is_chinese_char(text[r][i[r] + 1])
    /\ LET best == FindBest(text[r], i[r], known_vocab, extra_vocab)
           info == SelectInfo(best, known_vocab, extra_vocab)
       IN  /\ Truthy(best.best_match)
           /\ IF info = <<>>
              THEN /\ pc' = [pc EXCEPT ![r] = "KeyError"]
                   /\ UNCHANGED <<result, starts, i>>
              ELSE /\ result' = [result EXCEPT ![r] =
                                   Append(@, MatchedSpan(best, info[1]))]
                   /\ starts' = [starts EXCEPT ![r] = Append(@, i[r])]
                   /\ i' = [i EXCEPT ![r] = NextIndex(@, best)]
                   /\ UNCHANGED pc
    /\ UNCHANGED <<known_vocab, extra_vocab, unknown_chars, text, acc0,
                   reported, prev, stale>>
    /\ UNCHANGED <<html_content, scrapeVars>>

\* variant: a character already in unknown_chars gets no second '?' span
Fallback_dedup(r) ==
    /\ pc[r] = "loop"
    /\ LoopCond(i[r], text[r])
    /\ InRange(text[r], i[r])
    /\ LET char == text[r][i[r] + 1]
           best == FindBest(text[r], i[r], known_vocab, extra_vocab)
       IN  /\ is_chinese_char(char)
           /\ ~Truthy(best.best_match)
           /\ unknown_chars' = AddUnknown(unknown_chars, char)
           /\ IF char \in unknown_chars
              THEN UNCHANGED <<result, starts>>
              ELSE /\ result' = [result EXCEPT ![r] = Append(@, UnknownSpan(char))]
                   /\ starts' = [starts EXCEPT ![r] = Append(@, i[r])]
           /\ i' = [i EXCEPT ![r] = @ + 1]
    /\ UNCHANGED <<known_vocab, extra_vocab, pc, text, acc0, reported, prev, stale>>
    /\ UNCHANGED <<html_content, scrapeVars>>

\* variant: the unmapped character is cached in extra_vocab
Fallback_learn(r) ==
    /\ pc[r] = "loop"
    /\ LoopCond(i[r], text[r])
    /\ InRange(text[r], i[r])
    /\ LET char == text[r][i[r] + 1]
           best == FindBest(text[r], i[r], known_vocab, extra_vocab)
       IN  /\ is_chinese_char(char)
           /\ ~Truthy(best.best_match)
           /\ unknown_chars' = AddUnknown(unknown_chars, char)
           /\ extra_vocab' =
                  (<<char>> :> [pinyin |-> "?", english |-> "?"]) @@ extra_vocab
           /\ result' = [result EXCEPT ![r] = Append(@, UnknownSpan(char))]
           /\ starts' = [starts EXCEPT ![r] = Append(@, i[r])]
           /\ i' = [i EXCEPT ![r] = @ + 1]
    /\ UNCHANGED <<known_vocab, pc, text, acc0, reported, prev, stale>>
    /\ UNCHANGED <<html_content, scrapeVars>>

\* loop iteration, text[i] Chinese and no match
Fallback(r) ==
    /\ pc[r] = "loop"
    /\ LoopCond(i[r], text[r])
    /\ InRange(text[r], i[r])
    /\ LET char == text[r][i[r] + 1]
           best == FindBest(text[r], i[r], known_vocab, extra_vocab)
       IN  /\ is_chinese_char(char)
           /\ ~Truthy(best.best_match)
           /\ unknown_chars' = AddUnknown(unknown_chars, char)
           /\ result' = [result EXCEPT ![r] = Append(@, UnknownSpan(char))]
           /\ starts' = [starts EXCEPT ![r] = Append(@, i[r])]
           /\ i' = [i EXCEPT ![r] = @ + 1]
    /\ UNCHANGED <<known_vocab, extra_vocab, pc, text, acc0, reported, prev, stale>>
    /\ UNCHANGED <<html_content, scrapeVars>>

\* loop exit and return result; the caller then reads unknown_chars
Return(r) ==
    /\ pc[r] = "loop"
    /\ ~LoopCond(i[r], text[r])
    /\ pc' = [pc EXCEPT ![r] = "done"]
    /\ reported' = [reported EXCEPT ![r] = unknown_chars]
    /\ UNCHANGED <<known_vocab, extra_vocab, unknown_chars, text, i, result,
                   starts, acc0, prev, stale>>
    /\ UNCHANGED <<html_content, scrapeVars>>

\* main(): html = generate_article_html(story['title'], processed, ...)
Render(r) ==
    /\ pc[r] = "done"
    /\ pc' = [pc EXCEPT ![r] = "rendered"]
    /\ html_content' = [html_content EXCEPT ![r] =
           [k \in 1..Len(result[r]) |-> Fragment(result[r][k])]]
    /\ UNCHANGED <<known_vocab, extra_vocab, unknown_chars, text, i, result,
                   starts, acc0, reported, prev, stale>>
    /\ UNCHANGED scrapeVars

\* the caller is finished with the returned list and drops it
Release(r) ==
    /\ pc[r] \in {"done", "rendered"}
    /\ pc' = [pc EXCEPT ![r] = "idle"]
    /\ text' = [text EXCEPT ![r] = <<>>]
    /\ i' = [i EXCEPT ![r] = 0]
    /\ result' = [result EXCEPT ![r] = <<>>]
    /\ starts' = [starts EXCEPT ![r] = <<>>]
    /\ acc0' = [acc0 EXCEPT ![r] = {}]
    /\ reported' = [reported EXCEPT ![r] = {}]
    /\ prev' = [prev EXCEPT ![r] = <<>>]
    /\ stale' = [stale EXCEPT ![r] = {}]
    /\ UNCHANGED <<known_vocab, extra_vocab, unknown_chars>>
    /\ html_content' = [html_content EXCEPT ![r] = <<>>]
    /\ UNCHANGED scrapeVars

\* the statement unknown_chars = set() of main(), on its own
MainReset(r) ==
    /\ pc[r] \in {"idle", "done"}
    /\ unknown_chars /= {}
    /\ unknown_chars' = {}
    /\ UNCHANGED <<known_vocab, extra_vocab, pc, text, i, result, starts,
                   acc0, reported, prev, stale>>
    /\ UNCHANGED <<html_content, scrapeVars>>

(* --------------------------- fetch: actions ---------------------------- *)
\* fetch(url, retries=r) entered
FetchCall(r) ==
    /\ fetch_pc = "idle"
    /\ fetch_pc' = "for"
    /\ retries' = r
    /\ attempt' = 0
    /\ trace' = <<>>
    /\ body' = <<>>
    /\ returned' = <<"nothing yet">>
    /\ UNCHANGED <<extractorVars, linesVars>>
    /\ UNCHANGED <<known_vocab, extra_vocab, unknown_chars, pc, text, i,
                   result, starts, acc0, reported, prev, stale, html_content>>

\* an attempt whose urlopen and read succeed with the bytes b
Opened(b) ==
    /\ fetch_pc = "for"
    /\ InRetryRange(attempt, retries)
    /\ trace' = Append(trace, <<"urlopen", "ok">>)
    /\ body' = b
    /\ returned' = <<"str", Decode(b)>>
    /\ fetch_pc' = "returned"
    /\ UNCHANGED <<retries, attempt, extractorVars, linesVars>>
    /\ UNCHANGED <<known_vocab, extra_vocab, unknown_chars, pc, text, i,
                   result, starts, acc0, reported, prev, stale, html_content>>

\* an attempt that raises e: sleep and go round again, or print and
\* return None
Raised(e) ==
    /\ fetch_pc = "for"
    /\ InRetryRange(attempt, retries)
    /\ IF MoreAttempts(attempt, retries)
       THEN /\ trace' = trace \o <<(<<"urlopen", e>>), (<<"sleep", "1">>)>>
            /\ attempt' = attempt + 1
            /\ UNCHANGED <<fetch_pc, returned>>
       ELSE /\ trace' = trace \o <<(<<"urlopen", e>>), (<<"print", "Failed">>)>>
            /\ returned' = <<"None">>
            /\ fetch_pc' = "returned"
            /\ UNCHANGED attempt
    /\ UNCHANGED <<retries, body, extractorVars, linesVars>>
    /\ UNCHANGED <<known_vocab, extra_vocab, unknown_chars, pc, text, i,
                   result, starts, acc0, reported, prev, stale, html_content>>

\* the range is used up: the function body ends, which returns None
Exhausted ==
    /\ fetch_pc = "for"
    /\ ~InRetryRange(attempt, retries)
    /\ returned' = <<"None">>
    /\ fetch_pc' = "returned"
    /\ UNCHANGED <<retries, attempt, trace, body, extractorVars, linesVars>>
    /\ UNCHANGED <<known_vocab, extra_vocab, unknown_chars, pc, text, i,
                   result, starts, acc0, reported, prev, stale, html_content>>

\* main(): "html = fetch(url)" has its value; the next fetch may follow
FetchDone ==
    /\ fetch_pc = "returned"
    /\ fetch_pc' = "idle"
    /\ retries' = 0
    /\ attempt' = 0
    /\ trace' = <<>>
    /\ body' = <<>>
    /\ returned' = <<"nothing yet">>
    /\ UNCHANGED <<extractorVars, linesVars>>
    /\ UNCHANGED <<known_vocab, extra_vocab, unknown_chars, pc, text, i,
                   result, starts, acc0, reported, prev, stale, html_content>>

(* --------------------- SimpleHTMLTextExtractor: actions ---------------- *)
handle_starttag(tag) ==
    /\ fed < MaxEvents
    /\ fed' = fed + 1
    /\ skip' = IF tag \in skip_tags THEN TRUE ELSE skip
    /\ text_parts' = IF tag \in break_on_start
                     THEN Append(text_parts, "\n") ELSE text_parts
    /\ open_skip' = IF tag \in skip_tags
                    THEN [open_skip EXCEPT ![tag] = @ + 1] ELSE open_skip
    /\ UNCHANGED <<fetchVars, linesVars>>
    /\ UNCHANGED <<known_vocab, extra_vocab, unknown_chars, pc, text, i,
                   result, starts, acc0, reported, prev, stale, html_content>>

handle_endtag(tag) ==
    /\ fed < MaxEvents
    /\ fed' = fed + 1
    /\ skip' = IF tag \in skip_tags THEN FALSE ELSE skip
    /\ text_parts' = IF tag \in break_on_end
                     THEN Append(text_parts, "\n") ELSE text_parts
    /\ open_skip' = IF tag \in skip_tags /\ open_skip[tag] > 0
                    THEN [open_skip EXCEPT ![tag] = @ - 1] ELSE open_skip
    /\ UNCHANGED <<fetchVars, linesVars>>
    /\ UNCHANGED <<known_vocab, extra_vocab, unknown_chars, pc, text, i,
                   result, starts, acc0, reported, prev, stale, html_content>>

handle_data(data) ==
    /\ fed < MaxEvents
    /\ fed' = fed + 1
    /\ text_parts' = IF ~skip THEN Append(text_parts, data) ELSE text_parts
    /\ UNCHANGED <<skip, open_skip>>
    /\ UNCHANGED <<fetchVars, linesVars>>
    /\ UNCHANGED <<known_vocab, extra_vocab, unknown_chars, pc, text, i,
                   result, starts, acc0, reported, prev, stale, html_content>>

(* ------------------- extract_chinese_lines: actions -------------------- *)
\* extract_chinese_lines(t) entered: lines = [], seen = set(), text split
ExtractCall(t) ==
    /\ lines_pc = "idle"
    /\ lines_pc' = "for"
    /\ page_text' = t
    /\ page_lines' = Split(t)
    /\ line_no' = 0
    /\ seen' = {}
    /\ lines' = <<>>
    /\ picked' = <<>>
    /\ UNCHANGED <<fetchVars, extractorVars>>
    /\ UNCHANGED <<known_vocab, extra_vocab, unknown_chars, pc, text, i,
                   result, starts, acc0, reported, prev, stale, html_content>>

\* one pass of the body of "for line in text.split('\n')"
LineStep ==
    /\ lines_pc = "for"
    /\ line_no < Len(page_lines)
    /\ line_no' = line_no + 1
    /\ LET line == Cleaned(page_lines[line_no + 1])
       IN  IF chinese_count(line) >= 3 /\ normalized(line) \notin seen
           THEN /\ seen' = seen \cup {normalized(line)}
                /\ lines' = Append(lines, line)
                /\ picked' = Append(picked, line_no + 1)
           ELSE UNCHANGED <<seen, lines, picked>>
    /\ UNCHANGED <<lines_pc, page_text, page_lines>>
    /\ UNCHANGED <<fetchVars, extractorVars>>
    /\ UNCHANGED <<known_vocab, extra_vocab, unknown_chars, pc, text, i,
                   result, starts, acc0, reported, prev, stale, html_content>>

\* return lines
ExtractReturn ==
    /\ lines_pc = "for"
    /\ line_no = Len(page_lines)
    /\ lines_pc' = "returned"
    /\ UNCHANGED <<page_text, page_lines, line_no, seen, lines, picked>>
    /\ UNCHANGED <<fetchVars, extractorVars>>
    /\ UNCHANGED <<known_vocab, extra_vocab, unknown_chars, pc, text, i,
                   result, starts, acc0, reported, prev, stale, html_content>>

(* -------------------------- specifications ----------------------------- *)
\* the program as written: main() after main(), one activation at a time
Next ==
    \/ \E t \in Texts(Alphabet, MaxLen) : MainRun(1, t)
    \/ Passthrough(1)
    \/ Matched(1)
    \/ Fallback(1)
    \/ Return(1)
    \/ Release(1)

Spec == Init /\ [][Next]_vars

\* the same program, which goes on executing: an activation inside
\* process_text takes its next loop iteration or returns
SpecFair ==
    InitFiles /\ [][Next]_vars
         /\ WF_vars(Passthrough(1) \/ Matched(1) \/ Fallback(1) \/ Return(1))

\* main() through to the rendered story body, stories with line breaks
NextRender ==
    \/ \E t \in Texts(RenderAlphabet, MaxRenderLen) : MainRun(1, t)
    \/ Passthrough(1)
    \/ Matched(1)
    \/ Fallback(1)
    \/ Return(1)
    \/ Render(1)
    \/ Release(1)

SpecRender == InitFiles /\ [][NextRender]_vars

\* the same program on the vocabulary {"你好"}, texts with Latin letters
NextHi ==
    \/ \E t \in Texts(HiAlphabet, MaxHiLen) : MainRun(1, t)
    \/ Passthrough(1)
    \/ Matched(1)
    \/ Fallback(1)
    \/ Return(1)
    \/ Release(1)

SpecHi == InitHi /\ [][NextHi]_vars

\* a host calling process_text itself, one activation at a time; a call may
\* be repeated with the same arguments, and the accumulator may be emptied
\* between calls
NextRepeat ==
    \/ \E t \in Texts(Alphabet, MaxRepLen) : Call(1, t)
    \/ Recall(1)
    \/ Passthrough(1)
    \/ Matched(1)
    \/ Fallback(1)
    \/ Return(1)
    \/ Release(1)
    \/ MainReset(1)

SpecRepeat == Init /\ [][NextRepeat]_vars

\* a host running main() in two threads: the loop iterations of the two
\* activations interleave
NextConc ==
    \E r \in Runs :
        \/ \E t \in Texts(Alphabet, MaxConcLen) : MainRun(r, t)
        \/ Passthrough(r)
        \/ Matched(r)
        \/ Fallback(r)
        \/ Return(r)

SpecConc == Init /\ [][NextConc]_vars

(* ------------------------ vocabulary of the claims ---------------------- *)
\* fetch called again and again by the scraper
NextFetch ==
    \/ \E r \in RetryArgs : FetchCall(r)
    \/ \E b \in Bodies : Opened(b)
    \/ \E e \in Exceptions : Raised(e)
    \/ Exhausted
    \/ FetchDone

SpecFetch == InitScrape /\ [][NextFetch]_vars

\* extractor.feed(html): the parser reports its events one after another
NextExtractor ==
    \/ \E tag \in Tags : handle_starttag(tag)
    \/ \E tag \in Tags : handle_endtag(tag)
    \/ \E data \in Data : handle_data(data)

SpecExtractor == InitScrape /\ [][NextExtractor]_vars

\* extract_chinese_lines on the text of a page
NextLines ==
    \/ \E t \in Pages : ExtractCall(t)
    \/ LineStep
    \/ ExtractReturn

SpecLines == InitScrape /\ [][NextLines]_vars

Keys == DOMAIN known_vocab \cup DOMAIN extra_vocab

RECURSIVE Concat(_)
Concat(spans) ==
    IF spans = <<>> THEN <<>> ELSE spans[1][1] \o Concat(Tail(spans))

RECURSIVE SumLen(_)
SumLen(spans) ==
    IF spans = <<>> THEN 0 ELSE Len(spans[1][1]) + SumLen(Tail(spans))

Chars(t) == {t[p] : p \in 1..Len(t)}

\* the lengths L in 1..4, inside the text, at which text[pos:pos+L] is a key
\* of known or of extra
KeyLens(t, pos) ==
    {L \in 1..4 : pos + L <= Len(t) /\ SubSeq(t, pos + 1, pos + L) \in Keys}

Greatest(S) == CHOOSE x \in S : \A y \in S : y <= x

\* the index the scan stood at once span k had been emitted
EndOf(r, k) == IF k < Len(result[r]) THEN starts[r][k + 1] ELSE i[r]

\* span k of activation r was started on a Chinese character
OnChinese(r, k) ==
    /\ starts[r][k] < Len(text[r])
    /\ is_chinese_char(text[r][starts[r][k] + 1])

(* ------------------------------- C1 ------------------------------------ *)
\* C1: the spans returned by process_text, concatenated in order, are exactly
\* the input text, and their lengths sum to len(text).
C1_Coverage ==
    \A r \in Runs :
        pc[r] = "done" =>
            /\ Concat(result[r]) = text[r]
            /\ SumLen(result[r]) = Len(text[r])

\* a returned segmentation of a mixed text holding a multi-character span
C1_Witness ==
    /\ pc[1] = "done"
    /\ Len(text[1]) = 4
    /\ Len(result[1]) = 3
    /\ \E k \in 1..3 : Len(result[1][k][1]) = 2
    /\ \E k \in 1..3 : result[1][k][4] = "?"

(* ------------------------------- C2 ------------------------------------ *)
\* C2: a span started on a Chinese character at index pos, where some
\* text[pos:pos+L] (L in 1..4, inside the text) is a key of known or of
\* extra, is text[pos:pos+L] for the greatest such L, the two tables taken
\* jointly.
C2_LongestJoint ==
    \A r \in Runs : \A k \in 1..Len(result[r]) :
        LET pos == starts[r][k]
            cands == KeyLens(text[r], pos)
        IN  (OnChinese(r, k) /\ cands /= {}) =>
                result[r][k][1] =
                    SubSeq(text[r], pos + 1, pos + Greatest(cands))

\* known holds the two single characters, extra the two-character word:
\* one extra span
C2_Witness ==
    /\ pc[1] = "done"
    /\ text[1] = <<20320, 22909>>
    /\ {<<20320>>, <<22909>>} \subseteq DOMAIN known_vocab
    /\ <<20320, 22909>> \notin DOMAIN known_vocab
    /\ <<20320, 22909>> \in DOMAIN extra_vocab
    /\ result[1] = << <<(<<20320, 22909>>), FALSE, "nǐhǎo", "hi">> >>

(* ------------------------------- C3 ------------------------------------ *)
\* C3: a matched span is flagged known iff its text is a key of known, and
\* carries the known entry then and the extra entry otherwise.
C3_KnownWins ==
    \A r \in Runs : \A k \in 1..Len(result[r]) :
        LET w == result[r][k][1]
        IN  (OnChinese(r, k) /\ w \in Keys) =>
                /\ result[r][k][2] = (w \in DOMAIN known_vocab)
                /\ LET e == IF w \in DOMAIN known_vocab
                            THEN known_vocab[w] ELSE extra_vocab[w]
                   IN  /\ result[r][k][3] = e.pinyin
                       /\ result[r][k][4] = e.english

\* the longest match is a key of both tables and the known entry is emitted
C3_Witness ==
    /\ pc[1] = "done"
    /\ text[1] = <<20320, 22909>>
    /\ <<20320, 22909>> \in DOMAIN known_vocab \cap DOMAIN extra_vocab
    /\ result[1] = << <<(<<20320, 22909>>), TRUE, "nǐ hǎo", "hello">> >>

(* ------------------------------- C4 ------------------------------------ *)
\* C4: every non-Chinese character of the text is emitted as its own
\* one-character span, unchanged, known, with empty pronunciation and gloss,
\* and no span holds both a Chinese and a non-Chinese character.
C4_PassthroughIdentity ==
    \A r \in Runs :
        pc[r] = "done" =>
            /\ \A p \in 1..Len(text[r]) :
                   ~is_chinese_char(text[r][p]) =>
                       \E k \in 1..Len(result[r]) :
                           /\ starts[r][k] = p - 1
                           /\ result[r][k] = <<(<<text[r][p]>>), TRUE, "", "">>
            /\ \A k \in 1..Len(result[r]) :
                   \/ \A c \in Chars(result[r][k][1]) : is_chinese_char(c)
                   \/ \A c \in Chars(result[r][k][1]) : ~is_chinese_char(c)

(* ------------------------------- C5 ------------------------------------ *)
\* C5: on a Chinese character at index pos with no key of length 1..4
\* starting there, exactly the span (text[pos], False, '?', '?') is emitted,
\* text[pos] is in the unknown-character set, and the scan moved on by one.
C5_Fallback ==
    \A r \in Runs : \A k \in 1..Len(result[r]) :
        LET pos == starts[r][k]
        IN  (OnChinese(r, k) /\ KeyLens(text[r], pos) = {}) =>
                /\ result[r][k] = <<(<<text[r][pos + 1]>>), FALSE, "?", "?">>
                /\ text[r][pos + 1] \in unknown_chars
                /\ EndOf(r, k) = pos + 1

\* both tables empty, one Chinese character: one '?' span, recorded unknown
C5_Witness ==
    /\ pc[1] = "done"
    /\ DOMAIN known_vocab = {}
    /\ DOMAIN extra_vocab = {}
    /\ text[1] = <<20320>>
    /\ result[1] = << <<(<<20320>>), FALSE, "?", "?">> >>
    /\ unknown_chars = {20320}

(* ------------------------------- C6 ------------------------------------ *)
\* the call process_text("Hi你好", {"你好": ("nǐ hǎo", "hello")}, {}) has
\* returned to activation r
HiNiHaoDone(r) ==
    /\ pc[r] = "done"
    /\ text[r] = <<72, 105, 20320, 22909>>
    /\ DOMAIN known_vocab = {<<20320, 22909>>}
    /\ known_vocab[<<20320, 22909>>] = [pinyin |-> "nǐ hǎo", english |-> "hello"]
    /\ DOMAIN extra_vocab = {}

\* C6 (as amended): "Hi你好" with known = {"你好": ("nǐ hǎo", "hello")} and
\* empty extra yields three spans: "H" and "i" as passthrough spans, each
\* its own span, then "你好" as a known span.
C6_ThreeSpans ==
    \A r \in Runs :
        HiNiHaoDone(r) =>
            result[r] = << <<(<<72>>), TRUE, "", "">>,
                           <<(<<105>>), TRUE, "", "">>,
                           <<(<<20320, 22909>>), TRUE, "nǐ hǎo", "hello">> >>

\* C6 as stated: the same call yields four spans, "H" and "i" as passthrough
\* spans first and "你好" as a known span last.
C6_FourSpans ==
    \A r \in Runs :
        HiNiHaoDone(r) =>
            /\ Len(result[r]) = 4
            /\ result[r][1] = <<(<<72>>), TRUE, "", "">>
            /\ result[r][2] = <<(<<105>>), TRUE, "", "">>
            /\ result[r][Len(result[r])] =
                   <<(<<20320, 22909>>), TRUE, "nǐ hǎo", "hello">>

C6_Witness == HiNiHaoDone(1) /\ i[1] = 4 /\ Len(starts[1]) = 3

(* ------------------------------- C7 ------------------------------------ *)
\* C7 (as amended): a call on the empty string returns an empty sequence of
\* spans and leaves the unknown-character set as it found it, so the set is
\* empty afterwards exactly when it was empty before the call.
C7_EmptyKeepsAccumulator ==
    \A r \in Runs :
        (text[r] = <<>> /\ pc[r] \notin {"idle", "loop"}) =>
            /\ pc[r] = "done"
            /\ result[r] = <<>>
            /\ reported[r] = acc0[r]

\* C7 as stated: whatever calls came before, segmenting "" yields no span
\* and an empty unknown-character set.
C7_EmptyAlwaysEmptySet ==
    \A r \in Runs :
        (text[r] = <<>> /\ pc[r] = "done") =>
            /\ result[r] = <<>>
            /\ reported[r] = {}

\* a call on "" has returned after earlier calls had recorded characters
C7_Witness ==
    /\ pc[1] = "done"
    /\ text[1] = <<>>
    /\ acc0[1] = {20320, 22909}
    /\ reported[1] = {20320, 22909}
    /\ result[1] = <<>>

(* ------------------------------- C8 ------------------------------------ *)
\* C8: a call repeated with the same text and tables returns the same spans
\* as the call before it, whatever the accumulator held at either call, and
\* leaves the same unknown-character set when both calls started on an empty
\* one.
C8_Deterministic ==
    \A r \in Runs :
        (pc[r] = "done" /\ prev[r] /= <<>>) =>
            /\ result[r] = prev[r][1].spans
            /\ (acc0[r] = {} /\ prev[r][1].before = {}) =>
                   reported[r] = prev[r][1].after

\* a repeated call has returned; both calls started on an empty accumulator
\* and both recorded an unmapped character
C8_Witness ==
    /\ pc[1] = "done"
    /\ prev[1] /= <<>>
    /\ prev[1][1].before = {}
    /\ acc0[1] = {}
    /\ prev[1][1].after = {20320}
    /\ reported[1] = {20320}
    /\ Len(result[1]) = 3
    /\ \E k \in 1..3 : result[1][k] = <<(<<20320>>), FALSE, "?", "?">>

(* ------------------------------- C9 ------------------------------------ *)
\* C9: with two activations interleaved, the unknown-character set read for
\* one run holds only characters of that run's own text.
C9_OwnAccumulator ==
    \A r \in Runs :
        pc[r] = "done" => reported[r] \subseteq Chars(text[r])

(* ------------------------------- C10 ----------------------------------- *)
\* C10: process_text reaches no error state: the subscript after a match is
\* on a key of the table best_is_known selects, and text[i] is read inside
\* the text.
C10_Total ==
    \A r \in Runs : pc[r] \in {"idle", "loop", "done"}

\* a call has returned after a match looked up in extra, a match looked up
\* in known and an unmapped character
C10_Witness ==
    /\ pc[1] = "done"
    /\ \E k \in 1..Len(result[1]) :
           result[1][k][1] \in DOMAIN extra_vocab /\ ~result[1][k][2]
    /\ \E k \in 1..Len(result[1]) :
           result[1][k][1] \in DOMAIN known_vocab /\ result[1][k][2]
    /\ \E k \in 1..Len(result[1]) : result[1][k][4] = "?"

(* ------------------------------- C11 ----------------------------------- *)
\* C11: the scan index stays within 0..len(text) and is len(text) once the
\* loop has been left; every emitted span is the 1 to 4 characters of the
\* text from the index it was started at, and the index moved on by exactly
\* that many characters.
C11_InsideText ==
    \A r \in Runs :
        /\ 0 <= i[r] /\ i[r] <= Len(text[r])
        /\ pc[r] = "done" => i[r] = Len(text[r])
        /\ \A k \in 1..Len(result[r]) :
               LET w == result[r][k][1]
                   pos == starts[r][k]
               IN  /\ Len(w) \in 1..4
                   /\ pos + Len(w) <= Len(text[r])
                   /\ w = SubSeq(text[r], pos + 1, pos + Len(w))
                   /\ EndOf(r, k) = pos + Len(w)

\* "你好" matched on the last two characters of a three-character text while
\* a four-character key exists: the probes of length 4 and 3 were skipped
C11_Witness ==
    /\ pc[1] = "done"
    /\ text[1] = <<72, 20320, 22909>>
    /\ <<20320, 22909>> \in DOMAIN known_vocab
    /\ <<20320, 22909, 20320, 22909>> \in DOMAIN extra_vocab
    /\ starts[1] = <<0, 1>>
    /\ result[1][2][1] = <<20320, 22909>>
    /\ i[1] = 3

(* ------------------------------- C12 ----------------------------------- *)
\* span k of activation r is a passthrough span or a '?' span
OneCharKind(r, k) ==
    \/ ~OnChinese(r, k)
    \/ result[r][k] = <<(<<text[r][starts[r][k] + 1]>>), FALSE, "?", "?">>

\* no more spans than characters scanned, no more iterations than
\* characters; each iteration moved the index on, by exactly one for a
\* passthrough or unmatched character
C12_Progress ==
    \A r \in Runs :
        /\ Len(starts[r]) = Len(result[r])
        /\ Len(result[r]) <= i[r]
        /\ Len(result[r]) <= Len(text[r])
        /\ \A k \in 1..Len(result[r]) :
               /\ EndOf(r, k) >= starts[r][k] + 1
               /\ OneCharKind(r, k) => EndOf(r, k) = starts[r][k] + 1

\* a step that leaves the activation in its loop emitted exactly one span
C12_OneSpanPerIteration ==
    \A r \in Runs :
        (pc[r] = "loop" /\ pc'[r] = "loop" /\ i'[r] /= i[r]) =>
            /\ Len(result'[r]) = Len(result[r]) + 1
            /\ i'[r] > i[r]

\* C12: process_text always terminates: every loop iteration emits exactly
\* one span and advances the index by at least one (exactly one for a
\* passthrough or unmatched character), so there are at most len(text)
\* iterations and spans, and an activation in the loop returns.
C12_Terminates ==
    /\ []C12_Progress
    /\ [][C12_OneSpanPerIteration]_vars
    /\ \A r \in Runs : (pc[r] = "loop") ~> (pc[r] = "done")

\* a call on a full-length text has returned after as many iterations as
\* the text has characters
C12_Witness ==
    /\ pc[1] = "done"
    /\ Len(text[1]) = MaxLen
    /\ Len(starts[1]) = MaxLen
    /\ \E k \in 1..Len(result[1]) : result[1][k][4] = "?"
    /\ \E k \in 1..Len(result[1]) : ~OnChinese(1, k)

(* ------------------------------- C13 ----------------------------------- *)
\* the characters of the '?' spans of activation r
FallbackChars(r) ==
    {result[r][k][1][1] :
        k \in {j \in 1..Len(result[r]) :
                  ~result[r][j][2] /\ result[r][j][3] = "?"}}

\* C13: after a run started on an empty accumulator the unknown-character
\* set is exactly the set of characters of the '?' spans; each member is a
\* Chinese character that is a key of neither table.
C13_UnknownExact ==
    \A r \in Runs :
        (pc[r] = "done" /\ acc0[r] = {}) =>
            /\ reported[r] = FallbackChars(r)
            /\ \A c \in reported[r] :
                   /\ is_chinese_char(c)
                   /\ <<c>> \notin Keys

\* "好" is consumed inside the matched "你好" and is also unmapped on its
\* own; "你" is only ever inside the match and "H" is passthrough
C13_Witness ==
    /\ pc[1] = "done"
    /\ acc0[1] = {}
    /\ text[1] = <<72, 20320, 22909, 22909>>
    /\ Len(result[1]) = 3
    /\ result[1][2][1] = <<20320, 22909>>
    /\ result[1][3] = <<(<<22909>>), FALSE, "?", "?">>
    /\ reported[1] = {22909}

(* ------------------------------- C14 ----------------------------------- *)
\* a run of main() starts process_text on an empty accumulator, which then
\* holds characters of this run's story only, and reports the characters of
\* its '?' spans
C14_FreshPerRun ==
    \A r \in Runs :
        /\ pc[r] \in {"loop", "done"} =>
               /\ acc0[r] = {}
               /\ unknown_chars \subseteq Chars(text[r])
        /\ pc[r] = "done" => reported[r] = FallbackChars(r)

\* a step taken inside process_text removes nothing from the accumulator
C14_OnlyGrows ==
    \A r \in Runs : pc[r] = "loop" => unknown_chars \subseteq unknown_chars'

\* C14: main() empties the accumulator before segmenting, so what it reports
\* is exactly the unknown characters of that run's story, with nothing left
\* by an earlier run; process_text itself never removes a character.
C14_ResetPerRun == []C14_FreshPerRun /\ [][C14_OnlyGrows]_vars

\* an earlier run had left "你"; this run's story has only "好" unmapped and
\* reports just that
C14_Witness ==
    /\ pc[1] = "done"
    /\ stale[1] = {20320}
    /\ 20320 \notin Chars(text[1])
    /\ reported[1] = {22909}

(* ------------------------------- C15 ----------------------------------- *)
\* no step changes a vocabulary, and no step of process_text changes its text
C15_ReadOnly ==
    /\ known_vocab' = known_vocab
    /\ extra_vocab' = extra_vocab
    /\ \A r \in Runs : pc[r] = "loop" => text'[r] = text[r]

\* C15: process_text only reads the two vocabularies and the text; known and
\* extra hold the same keys and entries after a call as before it.
C15_Frame == [][C15_ReadOnly]_vars

\* a call that looked up both tables and recorded an unmapped character has
\* returned with both tables as loaded
C15_Witness ==
    /\ pc[1] = "done"
    /\ known_vocab = Restrict(KnownTable, {<<20320>>})
    /\ extra_vocab = Restrict(ExtraTable, {<<20320, 22909>>})
    /\ text[1] = <<20320, 22909, 20320, 22909>>
    /\ Len(result[1]) = 2
    /\ reported[1] = {}

(* ------------------------------- C16 ----------------------------------- *)
\* C16: the renderer emits one fragment per span, in order: a span whose
\* first character is not Chinese is emitted verbatim with no wrapper (a
\* newline as "<br>"); a span whose first character is Chinese is wrapped in
\* an element of class "known" exactly when isKnown is true and of class
\* "unknown" otherwise, so extra-vocabulary and '?' spans are the ones marked
\* unknown and passthrough spans carry no annotation.
C16_Rendering ==
    \A r \in Runs :
        pc[r] = "rendered" =>
            /\ Len(html_content[r]) = Len(result[r])
            /\ \A k \in 1..Len(result[r]) :
                   LET span == result[r][k]
                       f == html_content[r][k]
                   IN  /\ ~is_chinese_char(span[1][1]) =>
                              f = IF span[1] = <<10>> THEN LineBreak
                                  ELSE Verbatim(span[1])
                       /\ is_chinese_char(span[1][1]) =>
                              /\ f.word = span[1]
                              /\ f.post = <<"</span>">>
                              /\ Len(f.pre) = 5
                              /\ f.pre[1] \in {KnownOpen, UnknownOpen}
                              /\ f.pre[1] = KnownOpen <=> span[2]
                              /\ f.pre[2] = span[3]
                              /\ f.pre[4] = span[4]
                       /\ ~OnChinese(r, k) => f.post = <<>>
                       /\ (OnChinese(r, k) /\ span[1] \notin DOMAIN known_vocab)
                              => f.pre[1] = UnknownOpen

\* a line break, the unmapped "好" and "你" from the extra table, rendered
C16_Witness ==
    /\ pc[1] = "rendered"
    /\ text[1] = <<10, 22909, 20320>>
    /\ DOMAIN known_vocab = {}
    /\ html_content[1] =
           <<LineBreak,
             Annotated(UnknownOpen, <<22909>>, "?", "?"),
             Annotated(UnknownOpen, <<20320>>, "nǐ", "thou")>>

(* ------------------------------- C17 ----------------------------------- *)
\* the positions of the attempts in the trace, and how many there are
AttemptAt(k) == trace[k][1] = "urlopen"

Attempts(n) == Cardinality({k \in 1..n : AttemptAt(k)})

FailedAt(k) == AttemptAt(k) /\ trace[k][2] \in Exceptions

\* C17: fetch(url, retries=r) makes at most r + 1 attempts; it returns the
\* decoded body of the first attempt that succeeds, which is its last
\* attempt; it returns None, and never raises, only after r + 1 failed
\* attempts; it waits after a failed attempt that another attempt follows
\* and not after the last one.
C17_Fetch ==
    /\ fetch_pc \in {"idle", "for", "returned"}
    /\ Attempts(Len(trace)) <= retries + 1 \/ Attempts(Len(trace)) = 0
    /\ \A k \in 1..Len(trace) :
           /\ trace[k] = <<"urlopen", "ok">> =>
                  /\ k = Len(trace)
                  /\ fetch_pc = "returned"
           /\ trace[k][1] = "sleep" =>
                  /\ k > 1 /\ FailedAt(k - 1)
                  /\ Attempts(k) < retries + 1
           /\ FailedAt(k) =>
                  /\ k < Len(trace)
                  /\ trace[k + 1][1] = "sleep" <=> Attempts(k) < retries + 1
    /\ fetch_pc = "returned" =>
           /\ returned[1] \in {"str", "None"}
           /\ returned[1] = "str" =>
                  /\ trace[Len(trace)] = <<"urlopen", "ok">>
                  /\ returned[2] = Decode(body)
           /\ returned[1] = "None" =>
                  /\ \A k \in 1..Len(trace) : AttemptAt(k) => FailedAt(k)
                  /\ Attempts(Len(trace)) =
                         (IF retries + 1 > 0 THEN retries + 1 ELSE 0)

\* with two retries allowed: a failure, the wait, then a success whose body
\* has one undecodable byte; the remaining attempt is not made
C17_Witness ==
    /\ fetch_pc = "returned"
    /\ retries = 2
    /\ trace = <<(<<"urlopen", "timeout">>), (<<"sleep", "1">>),
                 (<<"urlopen", "ok">>)>>
    /\ body = <<169, 65>>
    /\ returned = <<"str", (<<REPLACEMENT, 65>>)>>

(* ------------------------------- C18 ----------------------------------- *)
\* some script, style or noscript element has been opened and not closed
AnySkipOpen == \E tag \in skip_tags : open_skip[tag] > 0

\* C18: character data that arrives while at least one script, style or
\* noscript element is still open, nested ones included, is never added to
\* the extracted text.
C18_SkippedDataDropped ==
    [][\A data \in Data :
           (AnySkipOpen /\ handle_data(data)) => text_parts' = text_parts]_vars

(* ------------------------------- C19 ----------------------------------- *)
\* line k of the page, stripped and without its markers, has at least three
\* Chinese characters
Qualifies(k) == chinese_count(Cleaned(page_lines[k])) >= 3

\* lines j and k of the page are equal once all whitespace is removed
SameText(j, k) ==
    SelectSeq(Cleaned(page_lines[j]), NotSpace) =
        SelectSeq(Cleaned(page_lines[k]), NotSpace)

\* line k qualifies and no qualifying line before it has the same text
FirstOccurrence(k) ==
    /\ Qualifies(k)
    /\ \A j \in 1..(k - 1) : Qualifies(j) => ~SameText(j, k)

\* C19: extract_chinese_lines returns, in the order of the page, exactly the
\* first occurrences of the stripped, marker-free lines that hold at least
\* three Chinese characters: no two returned lines are equal once all
\* whitespace is removed and none has fewer than three Chinese characters.
C19_FirstOccurrences ==
    lines_pc = "returned" =>
        /\ Len(lines) = Len(picked)
        /\ \A m \in 1..Len(picked) :
               /\ picked[m] \in 1..Len(page_lines)
               /\ lines[m] = Cleaned(page_lines[picked[m]])
               /\ m > 1 => picked[m - 1] < picked[m]
        /\ {picked[m] : m \in 1..Len(picked)} =
               {k \in 1..Len(page_lines) : FirstOccurrence(k)}
        /\ \A m \in 1..Len(lines) :
               /\ Cardinality({k \in 1..Len(lines[m]) :
                                  is_chinese(lines[m][k])}) >= 3
               /\ \A n \in 1..Len(lines) :
                      m /= n => SelectSeq(lines[m], NotSpace) /=
                                    SelectSeq(lines[n], NotSpace)

\* " 你 好你 ", "{Play}你好你", "好好好 {Play}": the second line repeats the
\* first up to whitespace and is dropped
C19_Witness ==
    /\ lines_pc = "returned"
    /\ page_lines = << <<32, 20320, 32, 22909, 20320, 32>>,
                       PlayMarker \o <<20320, 22909, 20320>>,
                       <<22909, 22909, 22909, 32>> \o PlayMarker >>
    /\ lines = << <<20320, 32, 22909, 20320>>, <<22909, 22909, 22909>> >>
    /\ picked = <<1, 3>>
====
